---- MODULE Spec2Model ----
(***************************************************************************)
(* Model of the polling scheduler of ic-alloy                              *)
(* (crates/rpc-client/src/icp_poller.rs): IcpPollerBuilder, its start()    *)
(* and stop() operations, the poll closure run by the immediate poll and   *)
(* by every timer tick, and ParamsOnce.                                    *)
(*                                                                         *)
(* Execution model (canister): one logical thread.  A message execution    *)
(* (start(), a timer tick, the continuation of a relay reply) runs         *)
(* without interleaving; the only suspension point of the poll body is     *)
(* `client.request(..).await`, whose reply is delivered in a later         *)
(* message.  Hence one action per message execution.                       *)
(*                                                                         *)
(* The user callback is assumed to return normally: a panic inside a       *)
(* canister traps and the whole reply continuation is rolled back, so the  *)
(* handler mutex is never observed poisoned.                               *)
(***************************************************************************)
EXTENDS Integers, Sequences, FiniteSets, TLC

\* ---------------------------------------------------------------- bounds
\* number of timer firings explored
MaxTicks == 2
\* number of stop() calls explored
MaxStops == 2
\* largest finite limit handed to set_limit / with_limit
MaxLimit == 2

\* ------------------------------------------------------ program constants
\* usize::MAX, the "no limit" value (scaled to the checker's integer range)
UsizeMax == 2147483647
\* Option::None for a TimerId
NoTimer == 0

VARIABLES
    builder,          \* "owned": the IcpPollerBuilder value is held by its owner;
                      \* "moved": it was consumed by start(self);
                      \* "dropped": it was consumed by into_stream(self)
    limit,            \* self.limit
    self_timer_id,    \* self.timer_id : Option<TimerId>
    paramsOk,         \* whether self.params serializes (serde_json::to_raw_value)
    ownerHoldsClient, \* the owner's strong reference to the client still exists
    timer_id,         \* the shared cell Arc<Mutex<Option<TimerId>>> of start()
    poll_count,       \* the shared AtomicUsize of start()
    timers,           \* timer facility: the TimerIds that are registered and live
    inflight,         \* relay calls awaiting their reply (call ids)
    startResult,      \* what start() returned: [state, id]
    log               \* observed events, in program order

vars == << builder, limit, self_timer_id, paramsOk, ownerHoldsClient, timer_id,
           poll_count, timers, inflight, startResult, log >>

\* ------------------------------------------------------------- the events
Ev(e, n, tag) == [ev |-> e, n |-> n, tag |-> tag]

Positions(e) == { i \in 1..Len(log) : log[i].ev = e }
Count(e) == Cardinality(Positions(e))
PositionsTagged(e, tag) == { i \in Positions(e) : log[i].tag = tag }

\* ------------------------------------------------------------- ParamsOnce
\* ParamsOnce::init: serializes the typed value; on success the cell becomes
\* Serialized.  Result: [ok, cell, serialized] (serialized: to_raw_value ran).
ParamsOnce_init(cell) ==
    IF paramsOk
        THEN [ok |-> TRUE, cell |-> "Serialized", serialized |-> TRUE]
        ELSE [ok |-> FALSE, cell |-> cell, serialized |-> TRUE]

\* ParamsOnce::get
ParamsOnce_get(cell) ==
    IF cell = "Typed"
        THEN ParamsOnce_init(cell)
        ELSE [ok |-> TRUE, cell |-> cell, serialized |-> FALSE]

\* The cell every invocation of the poll closure starts from:
\* `let mut params = ParamsOnce::Typed(self.params.clone());`
PollParams == "Typed"

\* --------------------------------------------------------- the poll closure
NextCallId == Count("request") + 1

\* The poll closure up to its suspension point: resolve the parameters and,
\* unless that fails, issue the relay call.  `by` is who ran the closure.
PollGot == ParamsOnce_get(PollParams)

PollEvents(by) ==
    (IF PollGot.serialized
        THEN << Ev("serialize", 0, IF PollGot.ok THEN "ok" ELSE "err") >>
        ELSE << >>)
    \o
    (IF PollGot.ok THEN << Ev("request", NextCallId, by) >> ELSE << >>)

PollInflight == IF PollGot.ok THEN inflight \cup {NextCallId} ELSE inflight

\* ------------------------------------------------------------- operations
\* set_limit / with_limit: None is usize::MAX
LimitInputs == {UsizeMax} \cup (0..MaxLimit)

set_limit(l) ==
    /\ builder = "owned"
    /\ limit' = l
    /\ UNCHANGED << builder, self_timer_id, paramsOk, ownerHoldsClient, timer_id,
                    poll_count, timers, inflight, startResult, log >>

\* The owner of the client drops it (WeakClient::upgrade then fails, unless the
\* poll closure already holds its own strong reference).
DropClient ==
    /\ ownerHoldsClient
    /\ ownerHoldsClient' = FALSE
    /\ UNCHANGED << builder, limit, self_timer_id, paramsOk, timer_id,
                    poll_count, timers, inflight, startResult, log >>

\* The TimerId the timer facility hands out next.
NextTimerId == Count("set_timer_interval") + 1

\* start() when WeakClient::upgrade fails: Err("Client has been dropped.")
StartErr ==
    /\ builder' = "moved"
    /\ startResult' = [state |-> "Err", id |-> NoTimer]
    /\ UNCHANGED << limit, self_timer_id, paramsOk, ownerHoldsClient,
                    timer_id, poll_count, timers, inflight, log >>

\* (mutant) the timer's id is returned but never put into the shared cell
StartOk_cellUnset(pollsNow, after, res) ==
    /\ builder' = after
    /\ inflight' = IF pollsNow THEN PollInflight ELSE inflight
    /\ timers' = timers \cup {NextTimerId}
    /\ timer_id' = NoTimer
    /\ self_timer_id' = NextTimerId
    /\ startResult' = [state |-> res, id |-> IF res = "Ok" THEN NextTimerId ELSE NoTimer]
    /\ log' = log \o (IF pollsNow THEN PollEvents("initial") ELSE << >>)
                  \o << Ev("set_timer_interval", NextTimerId, "") >>
    /\ UNCHANGED << limit, paramsOk, ownerHoldsClient, poll_count >>

\* start() past the upgrade: the immediate poll (`pollsNow`), then the timer
\* is registered and its id stored in the shared cell and in self.timer_id;
\* `after` is what becomes of the builder value, `res` what is returned.
StartOk(pollsNow, after, res) ==
    /\ builder' = after
    /\ inflight' = IF pollsNow THEN PollInflight ELSE inflight
    /\ timers' = timers \cup {NextTimerId}
    /\ timer_id' = NextTimerId
    /\ self_timer_id' = NextTimerId
    /\ startResult' = [state |-> res, id |-> IF res = "Ok" THEN NextTimerId ELSE NoTimer]
    /\ log' = log \o (IF pollsNow THEN PollEvents("initial") ELSE << >>)
                  \o << Ev("set_timer_interval", NextTimerId, "") >>
    /\ UNCHANGED << limit, paramsOk, ownerHoldsClient, poll_count >>

\* (mutant) start(&mut self): the builder stays with its owner
Start_keepsBuilder ==
    /\ builder = "owned"
    /\ IF ~ownerHoldsClient THEN StartErr ELSE StartOk(TRUE, "owned", "Ok")

\* (mutant) the client is looked up only after the schedule was set up
Start_lateUpgrade ==
    /\ builder = "owned"
    /\ StartOk(TRUE, "moved", IF ownerHoldsClient THEN "Ok" ELSE "Err")

\* (mutant) no immediate poll: the first call waits for the first tick
Start_noInitialPoll ==
    /\ builder = "owned"
    /\ IF ~ownerHoldsClient THEN StartErr ELSE StartOk(FALSE, "moved", "Ok")

\* start(self, response_handler): consumes the builder; fails when the client
\* is gone; otherwise polls once, registers the recurring timer and returns
\* its id.
Start ==
    /\ builder = "owned"
    /\ IF ~ownerHoldsClient THEN StartErr ELSE StartOk(TRUE, "moved", "Ok")

\* (mutant) a tick whose parameters fail to serialize cancels the timer
Tick_failureCancels(id) ==
    /\ id \in timers
    /\ Count("tick") < MaxTicks
    /\ inflight' = PollInflight
    /\ timers' = IF PollGot.ok THEN timers ELSE timers \ {id}
    /\ log' = log \o << Ev("tick", id, "") >> \o PollEvents("timer")
    /\ UNCHANGED << builder, limit, self_timer_id, paramsOk, ownerHoldsClient,
                    timer_id, poll_count, startResult >>

\* The timer facility fires the recurring timer `id`: the poll closure runs.
Tick(id) ==
    /\ id \in timers
    /\ Count("tick") < MaxTicks
    /\ inflight' = PollInflight
    /\ log' = log \o << Ev("tick", id, "") >> \o PollEvents("timer")
    /\ UNCHANGED << builder, limit, self_timer_id, paramsOk, ownerHoldsClient,
                    timer_id, poll_count, timers, startResult >>

\* (mutant) off by one: the limit must be exceeded
LimitReached_strict(count) == count > limit

\* `count >= self.limit`
LimitReached(count) == count >= limit

\* What the Ok arm does to the shared state for the reply of call c:
\* the counter becomes `count`, the handler is invoked (`invoke`), the timer
\* in the shared cell is cleared (`clears`).
OkArm(c, count, invoke, clears) ==
    /\ c \in inflight
    /\ inflight' = inflight \ {c}
    /\ poll_count' = count
    /\ timers' = IF clears THEN timers \ {timer_id} ELSE timers
    /\ log' = log \o << Ev("reply", c, "ok") >>
                  \o (IF invoke THEN << Ev("handler", c, "") >> ELSE << >>)
                  \o (IF clears THEN << Ev("clear_timer", timer_id, "limit") >>
                                ELSE << >>)
    /\ UNCHANGED << builder, limit, self_timer_id, paramsOk, ownerHoldsClient,
                    timer_id, startResult >>

\* (mutant) a reply that arrives after the timer was cleared is dropped
CompleteOk_dropsLate(c) ==
    IF timer_id # NoTimer /\ timer_id \notin timers
        THEN OkArm(c, poll_count, FALSE, FALSE)
        ELSE OkArm(c, poll_count + 1, TRUE,
                   LimitReached(poll_count + 1) /\ timer_id # NoTimer)

\* (mutant) the handler is skipped once the limit is exceeded
CompleteOk_skipsHandler(c) ==
    OkArm(c, poll_count + 1, poll_count + 1 <= limit,
          LimitReached(poll_count + 1) /\ timer_id # NoTimer)

\* The Ok arm of the poll body after the reply of call c arrived:
\* count = fetch_add(1) + 1; handler(response); clear the timer at the limit.
CompleteOk(c) ==
    OkArm(c, poll_count + 1, TRUE,
          LimitReached(poll_count + 1) /\ timer_id # NoTimer)

\* (mutant) a failed call is counted like a successful one, without the handler
CompleteErr_counts(c) ==
    /\ c \in inflight
    /\ inflight' = inflight \ {c}
    /\ poll_count' = poll_count + 1
    /\ timers' = IF LimitReached(poll_count + 1) /\ timer_id # NoTimer
                    THEN timers \ {timer_id} ELSE timers
    /\ log' = log \o << Ev("reply", c, "err") >>
    /\ UNCHANGED << builder, limit, self_timer_id, paramsOk, ownerHoldsClient,
                    timer_id, startResult >>

\* The Err arm of the poll body after call c failed.
CompleteErr(c) ==
    /\ c \in inflight
    /\ inflight' = inflight \ {c}
    /\ log' = log \o << Ev("reply", c, "err") >>
    /\ UNCHANGED << builder, limit, self_timer_id, paramsOk, ownerHoldsClient,
                    timer_id, poll_count, timers, startResult >>

\* stop(&mut self): callable only while the owner still has the builder
stop ==
    /\ builder = "owned"
    /\ self_timer_id' = NoTimer
    /\ timers' = IF self_timer_id # NoTimer THEN timers \ {self_timer_id} ELSE timers
    /\ log' = log \o << Ev("stop", 0, "") >>
                  \o (IF self_timer_id # NoTimer
                         THEN << Ev("clear_timer", self_timer_id, "stop") >>
                         ELSE << >>)
    /\ UNCHANGED << builder, limit, paramsOk, ownerHoldsClient, timer_id,
                    poll_count, inflight, startResult >>

\* stop(), within the bound on the number of calls explored
Stop ==
    /\ Count("stop") < MaxStops
    /\ stop

\* (mutant) the unreachable tail of into_stream is what runs
into_stream_empty == "stream::empty()"

\* What into_stream(self) produces: `panic!("Streams cannot be used ICP
\* canisters.")`; the `stream::empty()` after it is unreachable.
into_stream == "panic"

\* into_stream(self): consumes the builder, which is dropped as the panic
\* unwinds (in a canister the panic traps and the message is rolled back,
\* which is as if the call had not been made).
IntoStream ==
    /\ builder = "owned"
    /\ builder' = "dropped"
    /\ log' = log \o << Ev("into_stream", 0, into_stream) >>
    /\ UNCHANGED << limit, self_timer_id, paramsOk, ownerHoldsClient, timer_id,
                    poll_count, timers, inflight, startResult >>

\* =========================================================== relay transport
\* crates/transport-icp/src/lib.rs: IcpTransport.  send() is Service::call,
\* i.e. request_icp; its only suspension point is the inter-process call to
\* the relay, whose reply is delivered in a later message.

\* number of send() calls explored
MaxRequests == 2
\* number of poll_ready() calls explored
MaxReadyPolls == 1

\* `code: 6, // RPC error`
RpcErrorCode == 6

VARIABLES
    transport,   \* the IcpTransport value: [call_cycles, max_response_size]
    packets,     \* one record per send(): [ser, calls, reply, result]
    readiness    \* what each poll_ready() returned, in order, with the number
                 \* of calls in flight and of packets sent at that moment

tvars == << transport, packets, readiness >>

\* The values `err.0 as i64` can take: the rejection codes of the call
\* infrastructure (NoError = 0, SysFatal, SysTransient, DestinationInvalid,
\* CanisterReject, CanisterError, Unknown = 6).
RejectionCodes == 0..6

\* The variants of RpcError the relay can answer with.
RpcErrors == {"JsonRpcError", "ProviderError", "ValidationError", "HttpOutcallError"}

\* Response texts of the relay: one that parses as a response envelope and
\* one that does not.
GoodText == "{\"jsonrpc\":\"2.0\",\"id\":0,\"result\":\"0x1\"}"
BadText == "<html>"
Texts == {GoodText, BadText}

\* serde_json::from_str::<ResponsePacket>
from_str(text) ==
    IF text = GoodText
        THEN [ok |-> TRUE, packet |-> "ResponsePacket(id 0, result 0x1)"]
        ELSE [ok |-> FALSE, packet |-> ""]

\* CallResult<(RequestResult,)>: what the awaited call can resolve to.
Rejected(code) == [outer |-> "Err", inner |-> "", code |-> code, payload |-> "rejected"]
RelayOk(text) == [outer |-> "Ok", inner |-> "Ok", code |-> -1, payload |-> text]
RelayErr(e) == [outer |-> "Ok", inner |-> "Err", code |-> -1, payload |-> e]
NoReply == [outer |-> "", inner |-> "", code |-> -1, payload |-> ""]

Replies ==
    { Rejected(c) : c \in RejectionCodes }
    \cup { RelayOk(t) : t \in Texts }
    \cup { RelayErr(e) : e \in RpcErrors }

\* Result<ResponsePacket, TransportError>; kind is "Ok" or the variant of
\* TransportError (SerError, DeserError, ErrorResp).
Result(kind, code, detail) == [kind |-> kind, code |-> code, detail |-> detail]
Pending == Result("Pending", -1, "")

\* (mutant) an undecodable relay answer is reported as a relay error
MapReply_deserAsRelay(reply) ==
    IF reply.outer = "Ok"
        THEN IF reply.inner = "Ok" /\ from_str(reply.payload).ok
                THEN Result("Ok", -1, from_str(reply.payload).packet)
                ELSE Result("ErrorResp", RpcErrorCode, reply.payload)
        ELSE Result("ErrorResp", reply.code, reply.payload)

\* `match call_result { .. }` of request_icp
MapReply(reply) ==
    IF reply.outer = "Ok"
        THEN IF reply.inner = "Ok"
                THEN IF from_str(reply.payload).ok
                        THEN Result("Ok", -1, from_str(reply.payload).packet)
                        ELSE Result("DeserError", -1, reply.payload)
                ELSE Result("ErrorResp", RpcErrorCode, reply.payload)
        ELSE Result("ErrorResp", reply.code, reply.payload)

\* set_call_cycles: the default or a caller-chosen budget
Budgets == {"default", "custom"}

set_call_cycles(c) ==
    /\ transport' = [transport EXCEPT !.call_cycles = c]
    /\ UNCHANGED << packets, readiness >>

\* (mutant) backpressure: not ready while a call is in flight
poll_ready_backpressure ==
    IF \E i \in 1..Len(packets) : packets[i].result = Pending
        THEN "Pending" ELSE "Ready(Ok)"

\* Service::poll_ready: what it returns
poll_ready == "Ready(Ok)"

PendingPackets == { i \in 1..Len(packets) : packets[i].result = Pending }

PollReady ==
    /\ Len(readiness) < MaxReadyPolls
    /\ readiness' = Append(readiness,
            [ret |-> poll_ready, pending |-> Cardinality(PendingPackets),
             sent |-> Len(packets)])
    /\ UNCHANGED << transport, packets >>

\* request_icp up to the await: the request packet is serialized (`ser` is
\* whether that succeeds) and, unless that failed, the relay is called once.
Send(ser) ==
    /\ Len(packets) < MaxRequests
    /\ packets' = Append(packets,
            IF ser
                THEN [ser |-> TRUE, calls |-> 1, reply |-> NoReply, result |-> Pending]
                ELSE [ser |-> FALSE, calls |-> 0, reply |-> NoReply,
                      result |-> Result("SerError", -1, "")])
    /\ UNCHANGED << transport, readiness >>

\* (mutant) a rejected call is issued once more
Complete_retries(i, reply) ==
    /\ i \in 1..Len(packets)
    /\ packets[i].result = Pending
    /\ packets' = [packets EXCEPT ![i] =
            IF reply.outer = "Err" /\ @.calls < 2
                THEN [@ EXCEPT !.calls = @ + 1]
                ELSE [@ EXCEPT !.reply = reply, !.result = MapReply(reply)]]
    /\ UNCHANGED << transport, readiness >>

\* request_icp after the await: the reply of the call of packet i is mapped
\* to the result of send().
Complete(i, reply) ==
    /\ i \in 1..Len(packets)
    /\ packets[i].result = Pending
    /\ packets' = [packets EXCEPT ![i] =
            [@ EXCEPT !.reply = reply, !.result = MapReply(reply)]]
    /\ UNCHANGED << transport, readiness >>

TransportInit ==
    /\ transport = [call_cycles |-> "default", max_response_size |-> "default"]
    /\ packets = << >>
    /\ readiness = << >>

\* ================================================================== signer
\* crates/signer-icp/src/signer.rs and utils.rs: IcpSigner.  The suspension
\* points are the two management-canister calls, ecdsa_public_key (in new)
\* and sign_with_ecdsa (in sign_hash_inner).

\* number of IcpSigner::new calls explored
MaxCreates == 1
\* number of sign calls explored
MaxSigns == 2

VARIABLES
    signer,      \* the IcpSigner value, once new() returned Ok
    creates,     \* one record per IcpSigner::new: [path, name, chain, reply,
                 \* result, made], made being the signer in its Ok result
    signs,       \* one record per sign_hash/sign_transaction: [hash, reply, result]
    mgmtCalls    \* the management-canister calls issued, in order, each with
                 \* the operation that issued it (by)

svars == << signer, creates, signs, mgmtCalls >>

\* inputs of new()
Paths == { << >>, << "m/0" >> }
KeyNames == { "test_key" }
ChainIds == { "None", "Some(1)" }

\* SEC1 byte strings the key-derivation call can return: two points of the
\* curve and one byte string that is no point.
KeyBytes == { "pk_A", "pk_B", "not_a_point" }

\* (code, message) pairs with which the call infrastructure rejects a call
Rejections == { [code |-> "DestinationInvalid", message |-> "no such key"],
                [code |-> "CanisterError", message |-> "out of cycles"] }

\* ecdsa_key_id(name)
ecdsa_key_id(name) == [curve |-> "Secp256k1", name |-> name]

NoSigner == [state |-> "none", derivation_path |-> << >>,
             key_id |-> ecdsa_key_id(""), public_key |-> "", address |-> "",
             chain_id |-> "None"]

\* Replies of the management canister, for both calls:
\*   [ok, code, message, bytes, wellFormed, trials]
\* bytes is the public key or the signature; for a signature, wellFormed is
\* whether Signature::try_from accepts it and trials[p + 1] is what
\* recover_from_prehash yields for recovery id p: a key, or "error".
CallRejected(r) == [ok |-> FALSE, code |-> r.code, message |-> r.message,
                    bytes |-> "", wellFormed |-> FALSE, trials |-> << >>]
KeyReply(k) == [ok |-> TRUE, code |-> "", message |-> "", bytes |-> k,
                wellFormed |-> TRUE, trials |-> << >>]
SigReply(wf, t) == [ok |-> TRUE, code |-> "", message |-> "", bytes |-> "r||s",
                    wellFormed |-> wf, trials |-> t]
Unanswered == [ok |-> FALSE, code |-> "", message |-> "", bytes |-> "",
               wellFormed |-> FALSE, trials |-> << >>]

TrialOutcomes == { "pk_A", "pk_B", "error" }

KeyReplies == { CallRejected(r) : r \in Rejections } \cup { KeyReply(k) : k \in KeyBytes }
SigReplies ==
    { CallRejected(r) : r \in Rejections }
    \cup { SigReply(TRUE, << a, b >>) : a \in TrialOutcomes, b \in TrialOutcomes }
    \cup { SigReply(FALSE, << "error", "error" >>) }

\* Outcome of an operation: kind is "Ok", "Err" (an error result handed to
\* the caller), "Panic" (the operation aborts) or "Pending".
Outcome(kind, what, code, message, parity) ==
    [kind |-> kind, what |-> what, code |-> code, message |-> message,
     parity |-> parity]
Awaiting == Outcome("Pending", "", "", "", -1)

\* PublicKey::from_sec1_bytes / VerifyingKey::from_sec1_bytes accept a point
ValidPoint(bytes) == bytes \in { "pk_A", "pk_B" }

\* keccak256(uncompressed_point[1..])[12..32]
Keccak20(bytes) == IF bytes = "pk_A" THEN "0xA11ce" ELSE "0xB0b"

\* get_public_key: the reply of ecdsa_public_key, rejection mapped to IcpCall
get_public_key(reply) ==
    IF reply.ok
        THEN [ok |-> TRUE, key |-> reply.bytes, err |-> Awaiting]
        ELSE [ok |-> FALSE, key |-> "",
              err |-> Outcome("Err", "IcpCall", reply.code, reply.message, -1)]

\* (mutant) the key bytes are hashed without being checked to be a point
address_for_public_key_unchecked(public_key) ==
    [ok |-> TRUE, address |-> Keccak20(public_key), err |-> Awaiting]

\* address_for_public_key
address_for_public_key(public_key) ==
    IF ValidPoint(public_key)
        THEN [ok |-> TRUE, address |-> Keccak20(public_key), err |-> Awaiting]
        ELSE [ok |-> FALSE, address |-> "",
              err |-> Outcome("Err", "EllipticCurve", "", "", -1)]

\* The loop of y_parity from candidate `parity` on: each trial recovery is
\* unwrapped, the first candidate whose key equals the known key is returned,
\* and running out of candidates panics.
RECURSIVE TryParity(_, _, _)
TryParity(trials, public_key, parity) ==
    IF parity > 1
        THEN Outcome("Panic", "Unable to recover the parity bit", "", "", -1)
    ELSE IF trials[parity + 1] = "error"
        THEN Outcome("Panic", "unwrap: recover_from_prehash", "", "", -1)
    ELSE IF trials[parity + 1] = public_key
        THEN Outcome("Ok", "parity", "", "", parity)
        ELSE TryParity(trials, public_key, parity + 1)

\* y_parity(hash, signature, public_key)
y_parity(reply, public_key) ==
    IF ~ValidPoint(public_key)
        THEN Outcome("Panic", "unwrap: from_sec1_bytes", "", "", -1)
    ELSE IF ~reply.wellFormed
        THEN Outcome("Panic", "unwrap: Signature::try_from", "", "", -1)
        ELSE TryParity(reply.trials, public_key, 0)

\* sign_hash_inner after the await: the reply is unwrapped, then the
\* signature is completed with y_parity.
sign_hash_inner(reply, public_key) ==
    IF ~reply.ok
        THEN Outcome("Panic", "unwrap: sign_with_ecdsa", "", "", -1)
        ELSE LET p == y_parity(reply, public_key)
             IN  IF p.kind = "Ok"
                    THEN Outcome("Ok", "Signature", "", "", p.parity)
                    ELSE p

\* IcpSigner::new up to the await of ecdsa_public_key
New(path, name, chain) ==
    /\ signer.state = "none"
    /\ Len(creates) < MaxCreates
    /\ \A i \in 1..Len(creates) : creates[i].result # Awaiting
    /\ creates' = Append(creates, [path |-> path, name |-> name, chain |-> chain,
                                   reply |-> Unanswered, result |-> Awaiting,
                                   made |-> NoSigner])
    /\ mgmtCalls' = Append(mgmtCalls,
            [method |-> "ecdsa_public_key", derivation_path |-> path,
             key_id |-> ecdsa_key_id(name), hash |-> 0,
             by |-> << "new", Len(creates) + 1 >>])
    /\ UNCHANGED << signer, signs >>

\* IcpSigner::new after the await: get_public_key, address_for_public_key,
\* and the signer is built.
NewDone(i, reply) ==
    /\ i \in 1..Len(creates)
    /\ creates[i].result = Awaiting
    /\ LET c == creates[i]
           k == get_public_key(reply)
           a == address_for_public_key(k.key)
           res == IF ~k.ok THEN k.err
                  ELSE IF ~a.ok THEN a.err
                  ELSE Outcome("Ok", "IcpSigner", "", "", -1)
           made == IF res.kind = "Ok"
                      THEN [state |-> "ready", derivation_path |-> c.path,
                            key_id |-> ecdsa_key_id(c.name),
                            public_key |-> k.key, address |-> a.address,
                            chain_id |-> c.chain]
                      ELSE NoSigner
       IN  /\ creates' = [creates EXCEPT ![i] =
                   [@ EXCEPT !.reply = reply, !.result = res, !.made = made]]
           /\ signer' = IF res.kind = "Ok" THEN made ELSE signer
    /\ UNCHANGED << signs, mgmtCalls >>

\* (mutant) changing the chain re-keys the signer
set_chain_id_rekeys(chain_id) ==
    /\ signer.state = "ready"
    /\ signer' = [signer EXCEPT !.chain_id = chain_id,
                                !.key_id = ecdsa_key_id(chain_id)]
    /\ UNCHANGED << creates, signs, mgmtCalls >>

\* Signer::set_chain_id
set_chain_id(chain_id) ==
    /\ signer.state = "ready"
    /\ signer' = [signer EXCEPT !.chain_id = chain_id]
    /\ UNCHANGED << creates, signs, mgmtCalls >>

\* sign_hash / sign_transaction: sign_hash_inner up to the await of
\* sign_with_ecdsa.  The digest of the n-th call is n.
Sign ==
    /\ signer.state = "ready"
    /\ Len(signs) < MaxSigns
    /\ signs' = Append(signs, [hash |-> Len(signs) + 1, reply |-> Unanswered,
                               result |-> Awaiting])
    /\ mgmtCalls' = Append(mgmtCalls,
            [method |-> "sign_with_ecdsa",
             derivation_path |-> signer.derivation_path,
             key_id |-> signer.key_id, hash |-> Len(signs) + 1,
             by |-> << "sign", Len(signs) + 1 >>])
    /\ UNCHANGED << signer, creates >>

\* sign_hash_inner after the await, for the n-th sign call
SignDone(n, reply) ==
    /\ n \in 1..Len(signs)
    /\ signs[n].result = Awaiting
    /\ signs' = [signs EXCEPT ![n] =
            [@ EXCEPT !.reply = reply,
                      !.result = sign_hash_inner(reply, signer.public_key)]]
    /\ UNCHANGED << signer, creates, mgmtCalls >>

SignerInit ==
    /\ signer = NoSigner
    /\ creates = << >>
    /\ signs = << >>
    /\ mgmtCalls = << >>

\* ---------------------------------------------------------- specification
PollerInit ==
    /\ builder = "owned"
    /\ limit = UsizeMax
    /\ self_timer_id = NoTimer
    /\ paramsOk \in BOOLEAN
    /\ ownerHoldsClient = TRUE
    /\ timer_id = NoTimer
    /\ poll_count = 0
    /\ timers = {}
    /\ inflight = {}
    /\ startResult = [state |-> "none", id |-> NoTimer]
    /\ log = << >>

Init == PollerInit /\ TransportInit /\ SignerInit

allvars == << vars, tvars, svars >>

\* The polling scheduler.
Next ==
    \/ (\E l \in LimitInputs : set_limit(l)) /\ UNCHANGED << tvars, svars >>
    \/ DropClient /\ UNCHANGED << tvars, svars >>
    \/ Start /\ UNCHANGED << tvars, svars >>
    \/ (\E id \in timers : Tick(id)) /\ UNCHANGED << tvars, svars >>
    \/ (\E c \in inflight : CompleteOk(c)) /\ UNCHANGED << tvars, svars >>
    \/ (\E c \in inflight : CompleteErr(c)) /\ UNCHANGED << tvars, svars >>
    \/ Stop /\ UNCHANGED << tvars, svars >>
    \/ IntoStream /\ UNCHANGED << tvars, svars >>

Spec == Init /\ [][Next]_allvars

\* The relay transport.
NextTransport ==
    \/ (\E c \in Budgets : set_call_cycles(c)) /\ UNCHANGED << vars, svars >>
    \/ PollReady /\ UNCHANGED << vars, svars >>
    \/ (\E ser \in BOOLEAN : Send(ser)) /\ UNCHANGED << vars, svars >>
    \/ (\E i \in 1..Len(packets) : \E reply \in Replies : Complete(i, reply))
          /\ UNCHANGED << vars, svars >>

\* The scheduler stays as constructed; its parameter value plays no part.
InitTransport == Init /\ paramsOk = TRUE

SpecTransport == InitTransport /\ [][NextTransport]_allvars

\* The signer.
NextSigner ==
    \/ (\E path \in Paths : \E name \in KeyNames : \E chain \in ChainIds :
           New(path, name, chain)) /\ UNCHANGED << vars, tvars >>
    \/ (\E i \in 1..Len(creates) : \E reply \in KeyReplies : NewDone(i, reply))
          /\ UNCHANGED << vars, tvars >>
    \/ (\E c \in ChainIds : set_chain_id(c)) /\ UNCHANGED << vars, tvars >>
    \/ Sign /\ UNCHANGED << vars, tvars >>
    \/ (\E n \in 1..Len(signs) : \E reply \in SigReplies : SignDone(n, reply))
          /\ UNCHANGED << vars, tvars >>

SpecSigner == InitTransport /\ [][NextSigner]_allvars

\* =================================================================== claims
\* The events the current step appends to the log.
NewEvents == { log'[i] : i \in (Len(log) + 1)..Len(log') }

\* Position of the (first) registration of the recurring timer.
RegisteredAt == CHOOSE r \in Positions("set_timer_interval") :
                    \A q \in Positions("set_timer_interval") : r <= q

\* The poll body ran at log position i on behalf of `by`: the parameters were
\* resolved, and the relay call was issued unless serialization failed.
PollBodyAt(i, by) ==
    /\ i <= Len(log)
    /\ log[i].ev = "serialize"
    /\ log[i].tag = "ok" =>
          /\ i + 1 <= Len(log)
          /\ log[i + 1].ev = "request"
          /\ log[i + 1].tag = by

\* C1 (as claimed): the number of invocations of the user callback never
\* exceeds the configured limit k, whatever the interleaving of ticks and
\* relay completions.  Stated for k >= 1, where a k-th success exists (with
\* k = 0 the first success already exceeds the limit).
C1_CallbacksWithinLimit == limit >= 1 => Count("handler") <= limit

\* C2: with limit k >= 1, the step that processes the k-th success leaves the
\* recurring timer cancelled, and once the counter has reached the limit no
\* step fires the timer or issues a relay call.
C2_LimitIsTerminal ==
    [][ (limit >= 1 /\ poll_count' >= limit) =>
            /\ timers' = {}
            /\ poll_count >= limit =>
                  /\ Count("tick")' = Count("tick")
                  /\ Count("request")' = Count("request") ]_vars

C2_Witness ==
    /\ limit = 2
    /\ poll_count = 2
    /\ timers = {}
    /\ Count("tick") < MaxTicks
    /\ \E i \in Positions("handler") :
          \E j \in PositionsTagged("request", "timer") : log[j].n = log[i].n

\* C3: every successful relay completion increments the success counter by one
\* and invokes the callback exactly once with that response: the callback
\* invocations, the counter and the successful completions processed agree.
C3_CallbackPerSuccess ==
    /\ poll_count = Count("handler")
    /\ poll_count = Cardinality(PositionsTagged("reply", "ok"))
    /\ \A i \in PositionsTagged("reply", "ok") :
          i < Len(log) /\ log[i + 1] = Ev("handler", log[i].n, "")
    /\ \A i \in Positions("handler") :
          i > 1 /\ log[i - 1] = Ev("reply", log[i].n, "ok")
    /\ \A i, j \in Positions("handler") : log[i].n = log[j].n => i = j

C3_Witness ==
    /\ poll_count = 2
    /\ Count("handler") = 2
    /\ PositionsTagged("reply", "err") # {}

\* C4: a step that processes a failed relay call invokes no callback, leaves
\* the success counter unchanged and cancels no timer.
C4_FailureLeavesSchedule ==
    [][ \A c \in inflight :
          Ev("reply", c, "err") \in NewEvents =>
             /\ \A e \in NewEvents : e.ev \notin {"handler", "clear_timer"}
             /\ poll_count' = poll_count
             /\ timers' = timers ]_vars

\* after a failed call the timer ticked again and that tick's call succeeded
C4_Witness ==
    \E i \in PositionsTagged("reply", "err") :
       \E j \in Positions("tick") :
          \E k \in Positions("handler") :
             /\ i < j
             /\ j + 2 < k
             /\ log[j + 2] = Ev("request", log[k].n, "timer")

\* C5: a relay call still in flight when the timer handle is invalidated is
\* processed to completion when it succeeds: the callback is invoked, the
\* counter advances, and clearing the timer again changes nothing.
C5_InFlightStillProcessed ==
    [][ \A c \in inflight :
          ( /\ timer_id # NoTimer
            /\ timer_id \notin timers
            /\ c \notin inflight'
            /\ Ev("reply", c, "ok") \in NewEvents ) =>
             /\ Ev("handler", c, "") \in NewEvents
             /\ poll_count' = poll_count + 1
             /\ timers' = timers ]_vars

\* a callback ran after the timer was cleared, and the timer was cleared again
C5_Witness ==
    \E i, k \in Positions("clear_timer") :
       \E j \in Positions("handler") : i < j /\ j < k

\* C6 (as claimed): parameters are serialized at most once across all ticks
\* of one poller.
C6_SerializedAtMostOnce == Count("serialize") <= 1

\* C7 (as claimed): once start() has registered the recurring timer, the owner
\* can call stop() and that call cancels the timer.
C7_StopCancelsTimer ==
    (startResult.state = "Ok" /\ timers # {}) => ENABLED (stop /\ timers' = {})

C9_OwnerGoneNoEffect ==
    /\ [][ (builder = "owned" /\ builder' = "moved" /\ ~ownerHoldsClient) =>
              startResult'.state = "Err" ]_vars
    /\ [](startResult.state = "Err" =>
              /\ Count("serialize") = 0
              /\ Count("request") = 0
              /\ Count("set_timer_interval") = 0
              /\ Count("handler") = 0
              /\ timers = {}
              /\ inflight = {}
              /\ timer_id = NoTimer)

C9_Witness == startResult.state = "Err" /\ ~ownerHoldsClient

\* What C10 says of a successful start(), with `n` the number of relay calls
\* the immediate poll issues: the calls are issued before the one timer is
\* registered, the returned handle is that timer's, and every tick of it runs
\* the poll body.
StartShape(n) ==
    startResult.state = "Ok" =>
       /\ Count("set_timer_interval") = 1
       /\ log[RegisteredAt].n = startResult.id
       /\ Cardinality(PositionsTagged("request", "initial")) = n
       /\ \A i \in PositionsTagged("request", "initial") : i < RegisteredAt
       /\ \A i \in Positions("tick") :
             /\ i > RegisteredAt
             /\ log[i].n = startResult.id
             /\ PollBodyAt(i + 1, "timer")
       /\ \A i \in PositionsTagged("request", "timer") :
             i > 2 /\ log[i - 2].ev = "tick"

\* C10 (as claimed): a successful start() issues exactly one relay call
\* immediately, then registers exactly one recurring timer.
C10_StartIssuesOneCall == StartShape(1)

\* C10 (amended): a successful start() runs the poll body once immediately,
\* which issues exactly one relay call when the parameters serialize and none
\* when they do not; only afterwards it registers exactly one recurring timer,
\* whose every tick runs the same body, and returns that timer's handle.
C10_StartPollsOnce == StartShape(IF paramsOk THEN 1 ELSE 0)

C10_Witness ==
    /\ startResult.state = "Ok"
    /\ paramsOk
    /\ Count("tick") >= 2
    /\ Cardinality(PositionsTagged("request", "timer")) >= 2

\* C19: into_stream always fails fast with the unsupported-operation fault
\* (a panic); it never hands a stream, empty or not, to its caller.
C19_IntoStreamFailsFast ==
    \A i \in Positions("into_stream") :
       /\ log[i].tag = "panic"
       /\ builder = "dropped"
       /\ i = Len(log)

\* into_stream was called on a builder that had been configured and stopped
C19_Witness ==
    /\ Count("into_stream") = 1
    /\ Count("stop") >= 1
    /\ limit = 1

\* ------------------------------------------------- claims: relay transport
\* C11: every send() performs exactly one inter-process call when the request
\* serializes and none when it does not, whatever the call's outcome: the
\* transport never calls a second time for the same request.
C11_OneCallPerSend ==
    \A i \in 1..Len(packets) :
       /\ packets[i].calls = IF packets[i].ser THEN 1 ELSE 0
       /\ ~packets[i].ser => packets[i].result.kind = "SerError"

\* one request failed to serialize, another was called and rejected
C11_Witness ==
    \E i, j \in 1..Len(packets) :
       /\ ~packets[i].ser
       /\ packets[j].reply.outer = "Err"
       /\ packets[j].result.kind = "ErrorResp"

\* C12 (as claimed): the error send() returns for a relay application error
\* differs in kind from the one it returns for an infrastructure rejection
\* and from a serialization error, and all relay errors have the same kind.
C12_RelayErrorDistinct ==
    \A i, j \in 1..Len(packets) :
       packets[i].reply.inner = "Err" =>
          /\ packets[j].reply.outer = "Err" =>
                packets[i].result.kind # packets[j].result.kind
          /\ ~packets[j].ser => packets[i].result.kind # packets[j].result.kind
          /\ packets[j].reply.inner = "Err" =>
                packets[i].result.kind = packets[j].result.kind

\* C13: when the call is accepted and the relay answers with success text,
\* send() returns the decoded envelope if the text decodes and a
\* Deserialization error if not, never a relay or infrastructure error.
C13_SuccessTextDecoded ==
    \A i \in 1..Len(packets) :
       (packets[i].reply.outer = "Ok" /\ packets[i].reply.inner = "Ok") =>
          /\ packets[i].reply.payload = GoodText =>
                packets[i].result = Result("Ok", -1, "ResponsePacket(id 0, result 0x1)")
          /\ packets[i].reply.payload = BadText =>
                packets[i].result.kind = "DeserError"
          /\ packets[i].result.kind \in {"Ok", "DeserError"}

C13_Witness ==
    \E i, j \in 1..Len(packets) :
       /\ packets[i].reply = RelayOk(GoodText) /\ packets[i].result.kind = "Ok"
       /\ packets[j].reply = RelayOk(BadText) /\ packets[j].result.kind = "DeserError"

\* C14: poll_ready returns Ready(Ok) whenever it is called, with calls in
\* flight or after failed calls, and leaves the transport and its calls as
\* they are.
C14_AlwaysReady ==
    /\ [](\A n \in 1..Len(readiness) : readiness[n].ret = "Ready(Ok)")
    /\ [][ Len(readiness') > Len(readiness) =>
              (transport' = transport /\ packets' = packets) ]_allvars

\* poll_ready was called while one call was in flight and an earlier one had
\* ended in an error
C14_Witness ==
    \E n \in 1..Len(readiness) :
       /\ readiness[n].pending = 1
       /\ readiness[n].sent = 2
       /\ packets[1].result.kind = "ErrorResp"

\* ------------------------------------------------------------ signer claims

\* the management-canister calls of one method issued by one operation
CallsBy(method, by) ==
    { k \in 1..Len(mgmtCalls) :
         mgmtCalls[k].method = method /\ mgmtCalls[k].by = by }

\* the n-th sign call got a well-formed signature that recovers the signer's
\* key under neither recovery id
NeitherRecovers(n) ==
    /\ signs[n].reply.ok
    /\ signs[n].reply.wellFormed
    /\ \A p \in 1..2 : signs[n].reply.trials[p] # signer.public_key

\* C17: signer creation issues exactly one ecdsa_public_key call; a rejected
\* call gives the error IcpCall with the rejection's code and message, bytes
\* that are no curve point give the error EllipticCurve, and in both cases
\* no signer is made; otherwise the signer made holds the returned key, the
\* address derived from it, and the inputs of new().
C17_CreationOutcome ==
    \A i \in 1..Len(creates) :
       LET c == creates[i] IN
       /\ Cardinality(CallsBy("ecdsa_public_key", << "new", i >>)) = 1
       /\ Cardinality(CallsBy("sign_with_ecdsa", << "new", i >>)) = 0
       /\ c.result # Awaiting =>
             /\ ~c.reply.ok =>
                   /\ c.result = Outcome("Err", "IcpCall", c.reply.code,
                                         c.reply.message, -1)
                   /\ c.made = NoSigner
             /\ (c.reply.ok /\ ~ValidPoint(c.reply.bytes)) =>
                   /\ c.result = Outcome("Err", "EllipticCurve", "", "", -1)
                   /\ c.made = NoSigner
             /\ (c.reply.ok /\ ValidPoint(c.reply.bytes)) =>
                   /\ c.result.kind = "Ok"
                   /\ c.made.state = "ready"
                   /\ c.made.public_key = c.reply.bytes
                   /\ c.made.address = Keccak20(c.reply.bytes)
                   /\ c.made.derivation_path = c.path
                   /\ c.made.key_id = ecdsa_key_id(c.name)
                   /\ c.made.chain_id = c.chain

\* a creation failed on bytes that are no curve point
C17_Witness ==
    \E i \in 1..Len(creates) :
       /\ creates[i].reply = KeyReply("not_a_point")
       /\ creates[i].result.what = "EllipticCurve"
       /\ creates[i].made = NoSigner

\* C18: once the signer exists, no step changes its public key, address,
\* key id or derivation path; a step that changes the signer changes its
\* chain id only; and no ecdsa_public_key call is issued any more.
C18_KeyMaterialFixed ==
    [][ signer.state = "ready" =>
           /\ signer' = [signer EXCEPT !.chain_id = signer'.chain_id]
           /\ \A k \in (Len(mgmtCalls) + 1)..Len(mgmtCalls') :
                 mgmtCalls'[k].method = "sign_with_ecdsa" ]_allvars

\* the chain id was changed, one sign succeeded and one aborted
C18_Witness ==
    /\ signer.state = "ready"
    /\ \E i \in 1..Len(creates) :
          creates[i].made.state = "ready" /\ creates[i].made.chain_id # signer.chain_id
    /\ \E n, m \in 1..Len(signs) :
          /\ signs[n].result.kind = "Ok"
          /\ signs[m].result.kind = "Panic"

\* C15 (as claimed): when the returned signature recovers the signer's key
\* under neither recovery id, sign() returns the error RecoveryFailed to its
\* caller, and no signature.
C15_RecoveryFailedReported ==
    \A n \in 1..Len(signs) :
       (signs[n].result # Awaiting /\ NeitherRecovers(n)) =>
          /\ signs[n].result.kind = "Err"
          /\ signs[n].result.what = "RecoveryFailed"

\* C16 (as claimed): every sign() issues exactly one sign_with_ecdsa call,
\* and when that call is rejected sign() returns an error result carrying
\* the rejection; it does not abort.
C16_RejectionPropagated ==
    \A n \in 1..Len(signs) :
       /\ Cardinality(CallsBy("sign_with_ecdsa", << "sign", n >>)) = 1
       /\ (signs[n].result # Awaiting /\ ~signs[n].reply.ok) =>
             /\ signs[n].result.kind = "Err"
             /\ signs[n].result.code = signs[n].reply.code
             /\ signs[n].result.message = signs[n].reply.message

\* the candidates 0 and 1 whose trial recovery yields the signer's key
Matching(n) ==
    { p \in 0..1 : signs[n].reply.trials[p + 1] = signer.public_key }

\* C20 (as claimed): for every pair of trial-recovery outcomes, y_parity
\* returns the first candidate that recovers the known key, and fails only
\* when neither candidate does.
C20_FirstMatchingCandidate ==
    \A n \in 1..Len(signs) :
       (signs[n].result # Awaiting /\ signs[n].reply.ok /\ signs[n].reply.wellFormed) =>
          LET r == y_parity(signs[n].reply, signer.public_key) IN
          /\ Matching(n) # {} =>
                /\ r.kind = "Ok"
                /\ r.parity \in Matching(n)
                /\ \A p \in Matching(n) : r.parity <= p
          /\ Matching(n) = {} => r.kind = "Panic"

\* --------------------------------------------------- scheduler claims, cont.

\* C21: a step in which the poll body fails to serialize the parameters
\* issues no relay call, invokes no callback, leaves the success counter and
\* the calls in flight as they are and cancels no timer; after a tick that
\* failed so, its timer is still registered and can fire again.
C21_SerializeFailureSkipsTick ==
    /\ [][ Ev("serialize", 0, "err") \in NewEvents =>
              /\ \A e \in NewEvents : e.ev \notin {"request", "handler", "clear_timer"}
              /\ poll_count' = poll_count
              /\ inflight' = inflight
              /\ timers \subseteq timers'
              /\ \A e \in NewEvents : e.ev = "tick" => e.n \in timers' ]_allvars
    /\ []( ( /\ Len(log) >= 2
             /\ log[Len(log)] = Ev("serialize", 0, "err")
             /\ log[Len(log) - 1].ev = "tick"
             /\ Count("tick") < MaxTicks )
           => ENABLED Tick(log[Len(log) - 1].n) )

\* serialization failed in the immediate poll and in two ticks, and the
\* timer is still registered
C21_Witness ==
    /\ Count("tick") = 2
    /\ Cardinality(PositionsTagged("serialize", "err")) = 3
    /\ log[Len(log)] = Ev("serialize", 0, "err")
    /\ Count("request") = 0
    /\ timers # {}

\* C22: whenever a relay completion is processed, that of the immediate poll
\* included, the shared cell already holds the id of the registered timer;
\* and a successful completion that brings the counter to the limit or beyond
\* clears that timer, which is then no longer registered.
C22_HandleStoredBeforeCompletion ==
    [][ (\E e \in NewEvents : e.ev = "reply") =>
           /\ timer_id # NoTimer
           /\ timer_id = log[RegisteredAt].n
           /\ (poll_count' > poll_count /\ poll_count' >= limit) =>
                 /\ Ev("clear_timer", timer_id, "limit") \in NewEvents
                 /\ timer_id \notin timers' ]_allvars

\* limit = 1 was reached by the immediate poll, before any tick, and the
\* timer was cancelled
C22_Witness ==
    /\ limit = 1
    /\ poll_count = 1
    /\ Count("tick") = 0
    /\ \E i \in Positions("handler") :
          \E j \in PositionsTagged("request", "initial") : log[j].n = log[i].n
    /\ PositionsTagged("clear_timer", "limit") # {}
    /\ timers = {}

====
